---- MODULE Spec2Model ----
(***************************************************************************)
(* A model of mcp-infoblox: the entry point (src/index.ts), the WAPI HTTP  *)
(* client (infoblox-client.ts) and the tool handlers of the dns, network,  *)
(* dhcp and zone groups.                                                   *)
(*                                                                         *)
(* Text is modelled as a sequence of tokens.  The delimiters the URL       *)
(* parser looks at ("/", "?", "#", "&", "=", " ") are tokens of their own; *)
(* every other token is a piece of text free of delimiters.  Credentials   *)
(* are spelled one character per token so that their bytes can be encoded. *)
(***************************************************************************)
EXTENDS Integers, Sequences, FiniteSets, TLC

(* ------------------------------------------------------------------ *)
(* Values: JavaScript values of the kinds the handlers see.            *)
(* ------------------------------------------------------------------ *)

Undef == [k |-> "undef"]
Str(s) == [k |-> "str", s |-> s]
Num(n) == [k |-> "num", n |-> n]
Bool(b) == [k |-> "bool", b |-> b]
Obj(id) == [k |-> "obj", id |-> id]
Arr(items) == [k |-> "arr", items |-> items]

\* JavaScript truthiness: if (x) ...
Truthy(v) ==
  CASE v.k = "undef" -> FALSE
    [] v.k = "str" -> v.s # <<>>
    [] v.k = "num" -> v.n # 0
    [] v.k = "bool" -> v.b
    [] OTHER -> TRUE

\* a || b
OrElse(a, b) == IF Truthy(a) THEN a ELSE b

\* String(n) for the numbers the model draws
NumToString(n) ==
  CASE n = 0 -> <<"0">>
    [] n = 1 -> <<"1">>
    [] n = 2 -> <<"2">>
    [] n = 5 -> <<"5">>
    [] n = 100 -> <<"100">>
    [] n = 404 -> <<"404">>
    [] n = 500 -> <<"500">>
    [] n = 401 -> <<"401">>
    [] n = 400 -> <<"400">>
    [] n = 3600 -> <<"3600">>
    [] OTHER -> <<"<number>">>

RECURSIVE Concat(_)
Concat(ss) == IF ss = <<>> THEN <<>> ELSE Head(ss) \o Concat(Tail(ss))

Contains(s, t) == \E i \in 1..Len(s) : s[i] = t

IsPrefix(p, s) == Len(p) <= Len(s) /\ SubSeq(s, 1, Len(p)) = p

IsSuffix(p, s) == Len(p) <= Len(s) /\ SubSeq(s, Len(s) - Len(p) + 1, Len(s)) = p

\* index of the first token of s that lies in set D, or Len(s)+1
FirstIn(s, D) ==
  IF \E i \in 1..Len(s) : s[i] \in D
  THEN CHOOSE i \in 1..Len(s) : s[i] \in D /\ \A j \in 1..(i - 1) : s[j] \notin D
  ELSE Len(s) + 1

\* s split at every token d (d itself dropped): a sequence of sequences
RECURSIVE Split(_, _)
Split(s, d) ==
  LET i == FirstIn(s, {d})
  IN IF i > Len(s) THEN <<s>>
     ELSE <<SubSeq(s, 1, i - 1)>> \o Split(SubSeq(s, i + 1, Len(s)), d)

(* ------------------------------------------------------------------ *)
(* Buffer.from(text).toString("base64")                                *)
(* ------------------------------------------------------------------ *)

\* UTF-8 bytes of the characters credentials are drawn from
Utf8(c) ==
  CASE c = "a" -> <<97>>
    [] c = "d" -> <<100>>
    [] c = "u" -> <<117>>
    [] c = "p" -> <<112>>
    [] c = "w" -> <<119>>
    [] c = ":" -> <<58>>
    [] c = "é" -> <<195, 169>>

RECURSIVE Utf8Bytes(_)
Utf8Bytes(s) == IF s = <<>> THEN <<>> ELSE Utf8(Head(s)) \o Utf8Bytes(Tail(s))

Base64Alphabet ==
  << "A","B","C","D","E","F","G","H","I","J","K","L","M","N","O","P",
     "Q","R","S","T","U","V","W","X","Y","Z","a","b","c","d","e","f",
     "g","h","i","j","k","l","m","n","o","p","q","r","s","t","u","v",
     "w","x","y","z","0","1","2","3","4","5","6","7","8","9","+","/" >>

B64(i) == Base64Alphabet[i + 1]

RECURSIVE Base64(_)
Base64(b) ==
  CASE Len(b) = 0 -> <<>>
    [] Len(b) = 1 ->
         << B64(b[1] \div 4), B64((b[1] % 4) * 16), "=", "=" >>
    [] Len(b) = 2 ->
         << B64(b[1] \div 4), B64((b[1] % 4) * 16 + b[2] \div 16),
            B64((b[2] % 16) * 4), "=" >>
    [] OTHER ->
         << B64(b[1] \div 4), B64((b[1] % 4) * 16 + b[2] \div 16),
            B64((b[2] % 16) * 4 + b[3] \div 64), B64(b[3] % 64) >>
         \o Base64(SubSeq(b, 4, Len(b)))

(* ------------------------------------------------------------------ *)
(* new URL(text), url.searchParams.set(k, v), url.toString()           *)
(* ------------------------------------------------------------------ *)

\* the host parser lower-cases ASCII letters
LowerToken(t) == IF t = "H" THEN "h" ELSE t

LowerCase(s) == [i \in 1..Len(s) |-> LowerToken(s[i])]

\* code points the host parser refuses
ForbiddenHostTokens == {" ", "<bad>"}

\* path percent-encode set: a space becomes %20
PathEncode(s) == [i \in 1..Len(s) |-> IF s[i] = " " THEN "%20" ELSE s[i]]

\* dot-segment removal over the segments of a path
RECURSIVE RemoveDots(_, _)
RemoveDots(segs, acc) ==
  IF segs = <<>> THEN acc
  ELSE LET g == Head(segs)
           last == Len(segs) = 1
       IN CASE g = <<"..">> ->
                 RemoveDots(Tail(segs),
                   (IF acc = <<>> THEN <<>> ELSE SubSeq(acc, 1, Len(acc) - 1))
                   \o (IF last THEN << <<>> >> ELSE <<>>))
            [] g = <<".">> ->
                 RemoveDots(Tail(segs), acc \o (IF last THEN << <<>> >> ELSE <<>>))
            [] OTHER -> RemoveDots(Tail(segs), Append(acc, PathEncode(g)))

\* "k=v" -> <<k, v>>; no "=": value empty
ParsePair(p) ==
  LET i == FirstIn(p, {"="})
  IN << SubSeq(p, 1, i - 1), SubSeq(p, i + 1, Len(p)) >>

\* the name/value pairs of a query string (empty pieces are skipped)
ParseQuery(q) ==
  LET pieces == SelectSeq(Split(q, "&"), LAMBDA p : p # <<>>)
  IN [i \in 1..Len(pieces) |-> ParsePair(pieces[i])]

InvalidURL == [ok |-> FALSE, host |-> <<>>, segs |-> <<>>, query |-> <<>>, fragment |-> <<>>]

\* new URL(text) for an https URL: the parsed record, or InvalidURL (TypeError)
ParseURL(text) ==
  IF ~IsPrefix(<<"https://">>, text) THEN InvalidURL
  ELSE
    LET rest == Tail(text)
        a == FirstIn(rest, {"/", "?", "#"})
        authority == SubSeq(rest, 1, a - 1)
        after == SubSeq(rest, a, Len(rest))
        f == FirstIn(after, {"#"})
        beforeFrag == SubSeq(after, 1, f - 1)
        fragment == SubSeq(after, f + 1, Len(after))
        q == FirstIn(beforeFrag, {"?"})
        rawPath == SubSeq(beforeFrag, 1, q - 1)
        rawQuery == SubSeq(beforeFrag, q + 1, Len(beforeFrag))
        segs == IF rawPath = <<>> THEN << <<>> >> ELSE Split(Tail(rawPath), "/")
    IN IF authority = <<>> \/ \E i \in 1..Len(authority) : authority[i] \in ForbiddenHostTokens
       THEN InvalidURL
       ELSE [ok |-> TRUE,
             host |-> LowerCase(authority),
             segs |-> RemoveDots(segs, <<>>),
             query |-> ParseQuery(rawQuery),
             fragment |-> fragment]

\* url.searchParams.set(k, v): the first pair named k gets v and the other pairs
\* named k go; with no pair named k, <<k, v>> is appended
SearchParamsSet(query, k, v) ==
  IF \E i \in 1..Len(query) : query[i][1] = k
  THEN LET first == CHOOSE i \in 1..Len(query) :
                      query[i][1] = k /\ \A j \in 1..(i - 1) : query[j][1] # k
           kept == {i \in 1..Len(query) : query[i][1] # k \/ i = first}
           RECURSIVE Build(_)
           Build(i) ==
             IF i > Len(query) THEN <<>>
             ELSE (IF i \in kept
                   THEN << IF i = first THEN <<k, v>> ELSE query[i] >>
                   ELSE <<>>) \o Build(i + 1)
       IN Build(1)
  ELSE Append(query, <<k, v>>)

\* the path of a parsed URL as text: "/" seg "/" seg ...
RECURSIVE JoinSegs(_)
JoinSegs(segs) ==
  IF segs = <<>> THEN <<>> ELSE <<"/">> \o Head(segs) \o JoinSegs(Tail(segs))

(* ------------------------------------------------------------------ *)
(* The process environment and the inputs the model draws              *)
(* ------------------------------------------------------------------ *)

EnvNames ==
  {"INFOBLOX_HOST", "INFOBLOX_USERNAME", "INFOBLOX_PASSWORD",
   "INFOBLOX_WAPI_VERSION", "INFOBLOX_ALLOW_SELF_SIGNED",
   "NODE_TLS_REJECT_UNAUTHORIZED"}

\* the values each environment variable is drawn from (Undef: not set)
EnvValues(n) ==
  CASE n = "INFOBLOX_HOST" ->
         {Undef, Str(<<>>), Str(<<"h">>), Str(<<"H">>), Str(<<"h", " ", "h">>)}
    [] n = "INFOBLOX_USERNAME" ->
         {Undef, Str(<<>>), Str(<<"u">>), Str(<<"a", "d">>)}
    [] n = "INFOBLOX_PASSWORD" ->
         {Undef, Str(<<>>), Str(<<"p">>), Str(<<"p", ":", "w">>), Str(<<"é">>)}
    [] n = "INFOBLOX_WAPI_VERSION" ->
         {Undef, Str(<<>>), Str(<<"2.9">>)}
    [] n = "INFOBLOX_ALLOW_SELF_SIGNED" ->
         {Undef, Str(<<"false">>), Str(<<"true">>), Str(<<"0">>), Str(<<"FALSE">>)}
    [] n = "NODE_TLS_REJECT_UNAUTHORIZED" ->
         {Undef, Str(<<"1">>)}

\* a working installation; the environments drawn differ from it in one of
\* the pairs of EnvPairs
BaseEnv ==
  [n \in EnvNames |->
     CASE n = "INFOBLOX_HOST" -> Str(<<"h">>)
       [] n = "INFOBLOX_USERNAME" -> Str(<<"u">>)
       [] n = "INFOBLOX_PASSWORD" -> Str(<<"p">>)
       [] OTHER -> Undef]

\* the pairs of variables varied together
EnvPairs ==
  {<<"INFOBLOX_HOST", "INFOBLOX_WAPI_VERSION">>,
   <<"INFOBLOX_USERNAME", "INFOBLOX_PASSWORD">>,
   <<"INFOBLOX_ALLOW_SELF_SIGNED", "NODE_TLS_REJECT_UNAUTHORIZED">>}

Envs ==
  UNION {UNION {{[BaseEnv EXCEPT ![ab[1]] = x, ![ab[2]] = y] : x \in EnvValues(ab[1])} :
                y \in EnvValues(ab[2])} :
         ab \in EnvPairs}

VARIABLES
  env,        \* process.env
  pc,         \* where main() stands
  exitCode,   \* the code process.exit() was called with, or -1
  stderr,     \* the lines console.error wrote
  config,     \* the value getConfig() returned
  client,     \* the InfobloxClient: its baseUrl and authHeader
  groups,     \* the tool groups registered, in order
  registry,   \* the names server.tool() registered
  transport,  \* "none" or "connected"
  calls,      \* the tool invocations in progress, by slot
  invocations \* how many tools/call requests the server has dispatched

vars == <<env, pc, exitCode, stderr, config, client, groups, registry,
          transport, calls, invocations>>

\* the most tool invocations in progress at once
MaxInFlight == 2

Slots == 1..MaxInFlight

\* the most tools/call requests one run of the server is sent
MaxInvocations == 2

NoResult == [set |-> FALSE, rejected |-> FALSE, text |-> <<>>, isError |-> FALSE]

\* a slot with no invocation in it
NoCall ==
  [pc |-> "idle", tool |-> "", raw |-> <<>>, args |-> <<>>, fetches |-> 0,
   req |-> <<>>, kind |-> "", okPrefix |-> <<>>, errPrefix |-> <<>>,
   answer |-> <<>>, outcome |-> <<>>, result |-> NoResult]

NoConfig == [set |-> FALSE, host |-> <<>>, username |-> <<>>, password |-> <<>>,
             wapiVersion |-> <<>>, allowSelfSigned |-> FALSE]

NoClient == [constructed |-> FALSE, baseUrl |-> <<>>, authHeader |-> <<>>]

Init ==
  /\ env \in Envs
  /\ pc = "start"
  /\ exitCode = -1
  /\ stderr = <<>>
  /\ config = NoConfig
  /\ client = NoClient
  /\ groups = <<>>
  /\ registry = {}
  /\ transport = "none"
  /\ calls = [s \in Slots |-> NoCall]
  /\ invocations = 0

(* ------------------------------------------------------------------ *)
(* src/index.ts                                                        *)
(* ------------------------------------------------------------------ *)

\* a faulty getConfig(): self-signed certificates are allowed only on "true"
ConfigOfOptIn(e) ==
  [set |-> TRUE,
   host |-> e["INFOBLOX_HOST"].s,
   username |-> e["INFOBLOX_USERNAME"].s,
   password |-> e["INFOBLOX_PASSWORD"].s,
   wapiVersion |-> OrElse(e["INFOBLOX_WAPI_VERSION"], Str(<<"2.12">>)).s,
   allowSelfSigned |-> e["INFOBLOX_ALLOW_SELF_SIGNED"] = Str(<<"true">>)]

\* getConfig(): the config read from environment e
ConfigOf(e) ==
  [set |-> TRUE,
   host |-> e["INFOBLOX_HOST"].s,
   username |-> e["INFOBLOX_USERNAME"].s,
   password |-> e["INFOBLOX_PASSWORD"].s,
   wapiVersion |-> OrElse(e["INFOBLOX_WAPI_VERSION"], Str(<<"2.12">>)).s,
   allowSelfSigned |-> e["INFOBLOX_ALLOW_SELF_SIGNED"] # Str(<<"false">>)]

\* a faulty test of getConfig(): only unset variables count as missing
MissingRequiredUnset(e) ==
  \/ e["INFOBLOX_HOST"] = Undef
  \/ e["INFOBLOX_USERNAME"] = Undef
  \/ e["INFOBLOX_PASSWORD"] = Undef

\* the test of getConfig(): a required variable is unset or empty
MissingRequired(e) ==
  \/ ~Truthy(e["INFOBLOX_HOST"])
  \/ ~Truthy(e["INFOBLOX_USERNAME"])
  \/ ~Truthy(e["INFOBLOX_PASSWORD"])

\* main(): const config = getConfig()
getConfig ==
  /\ pc = "start"
  /\ IF MissingRequired(env)
     THEN /\ stderr' = Append(stderr,
                           "Missing required environment variables: INFOBLOX_HOST, INFOBLOX_USERNAME, INFOBLOX_PASSWORD")
          /\ exitCode' = 1
          /\ pc' = "exited"
          /\ config' = config
     ELSE /\ config' = ConfigOf(env)
          /\ pc' = "configured"
          /\ UNCHANGED <<stderr, exitCode>>
  /\ UNCHANGED <<env, client, groups, registry, transport, calls, invocations>>

\* a faulty constructor: the credentials are joined without their colon
InfobloxClientNoColon(c) ==
  [constructed |-> TRUE,
   baseUrl |-> <<"https://">> \o c.host \o <<"/", "wapi", "/", "v">> \o c.wapiVersion,
   authHeader |-> <<"Basic ">> \o Base64(Utf8Bytes(c.username \o c.password))]

\* new InfobloxClient(config): the fields the constructor assigns
InfobloxClient(c) ==
  [constructed |-> TRUE,
   baseUrl |-> <<"https://">> \o c.host \o <<"/", "wapi", "/", "v">> \o c.wapiVersion,
   authHeader |-> <<"Basic ">> \o Base64(Utf8Bytes(c.username \o <<":">> \o c.password))]

\* the constructor's write to process.env
EnvAfterConstructor(e, c) ==
  IF c.allowSelfSigned
  THEN [e EXCEPT !["NODE_TLS_REJECT_UNAUTHORIZED"] = Str(<<"0">>)]
  ELSE e

\* main(): const client = new InfobloxClient(config)
NewClient ==
  /\ pc = "configured"
  /\ client' = InfobloxClient(config)
  /\ env' = EnvAfterConstructor(env, config)
  /\ pc' = "constructed"
  /\ UNCHANGED <<exitCode, stderr, config, groups, registry, transport, calls,
                 invocations>>

DnsTools ==
  {"search_dns_records", "get_all_records_in_zone", "create_a_record",
   "create_aaaa_record", "create_cname_record", "create_host_record",
   "create_ptr_record", "create_mx_record", "create_txt_record",
   "create_srv_record", "update_dns_record", "delete_dns_record"}

NetworkTools ==
  {"get_networks", "create_network", "delete_network", "get_next_available_ip",
   "search_ip_addresses", "get_network_details"}

DhcpTools ==
  {"get_fixed_addresses", "create_fixed_address", "delete_fixed_address",
   "get_dhcp_leases", "get_dhcp_ranges", "create_dhcp_range"}

ZoneTools == {"get_zones", "create_zone", "delete_zone"}

Tools == DnsTools \cup NetworkTools \cup DhcpTools \cup ZoneTools

\* the registration calls of main(), in the order main() makes them
RegistrationOrder == <<"dns", "network", "dhcp", "zone", "grid">>

\* the tools a group's register function passes to server.tool(); the grid
\* group's handlers are not modelled, so it contributes its name only
GroupTools(g) ==
  CASE g = "dns" -> DnsTools
    [] g = "network" -> NetworkTools
    [] g = "dhcp" -> DhcpTools
    [] g = "zone" -> ZoneTools
    [] OTHER -> {}

\* main(): the next register<Group>Tools(server, client) call
RegisterTools ==
  /\ pc = "constructed"
  /\ Len(groups) < Len(RegistrationOrder)
  /\ LET g == RegistrationOrder[Len(groups) + 1]
     IN /\ groups' = Append(groups, g)
        /\ registry' = registry \cup GroupTools(g)
  /\ UNCHANGED <<env, pc, exitCode, stderr, config, client, transport, calls,
                 invocations>>

\* a faulty main(): the transport is connected once the network group is
\* registered
ReadyToConnectEarly == Len(groups) >= 2

\* what main() requires before it connects the transport
ReadyToConnect == Len(groups) = Len(RegistrationOrder)

\* main(): await server.connect(new StdioServerTransport())
Connect ==
  /\ pc = "constructed"
  /\ ReadyToConnect
  /\ transport' = "connected"
  /\ pc' = "connecting"
  /\ UNCHANGED <<env, exitCode, stderr, config, client, groups, registry, calls,
                 invocations>>

\* main(): console.error("Infoblox MCP server running") once connect resolved
LogRunning ==
  /\ pc = "connecting"
  /\ stderr' = Append(stderr, "Infoblox MCP server running")
  /\ pc' = "running"
  /\ UNCHANGED <<env, exitCode, config, client, groups, registry, transport, calls,
                 invocations>>

(* ------------------------------------------------------------------ *)
(* The input schemas of the tools (the zod objects given to            *)
(* server.tool) and the arguments the model draws                      *)
(* ------------------------------------------------------------------ *)

Rec(pairs) == [k |-> "rec", pairs |-> pairs]

RECORD_TYPES ==
  <<"record:a", "record:aaaa", "record:cname", "record:host", "record:ptr",
    "record:mx", "record:txt", "record:srv">>

\* a field of a schema: required, or optional with the default zod fills in
\* (Undef: none)
Req(f) == [f |-> f, req |-> TRUE, dflt |-> Undef]
Opt(f) == [f |-> f, req |-> FALSE, dflt |-> Undef]
Dflt(f, v) == [f |-> f, req |-> FALSE, dflt |-> v]

Schema(t) ==
  CASE t = "search_dns_records" ->
         <<Req("record_type"), Opt("name"), Opt("zone"), Opt("view"),
           Opt("ip_address"), Dflt("max_results", Num(100)), Opt("return_fields")>>
    [] t = "get_all_records_in_zone" ->
         <<Req("zone"), Opt("view"), Opt("record_type"), Dflt("max_results", Num(500))>>
    [] t = "create_a_record" ->
         <<Req("name"), Req("ipv4addr"), Opt("view"), Opt("ttl"), Opt("comment"),
           Dflt("disable", Bool(FALSE))>>
    [] t = "create_aaaa_record" ->
         <<Req("name"), Req("ipv6addr"), Opt("view"), Opt("ttl"), Opt("comment")>>
    [] t = "create_cname_record" ->
         <<Req("name"), Req("canonical"), Opt("view"), Opt("ttl"), Opt("comment")>>
    [] t = "create_host_record" ->
         <<Req("name"), Opt("ipv4addrs"), Opt("ipv6addrs"), Opt("view"), Opt("ttl"),
           Opt("comment"), Dflt("configure_for_dns", Bool(TRUE))>>
    [] t = "create_ptr_record" ->
         <<Req("ptrdname"), Opt("ipv4addr"), Opt("ipv6addr"), Opt("name"),
           Opt("view"), Opt("ttl"), Opt("comment")>>
    [] t = "create_mx_record" ->
         <<Req("name"), Req("mail_exchanger"), Req("preference"), Opt("view"),
           Opt("ttl"), Opt("comment")>>
    [] t = "create_txt_record" ->
         <<Req("name"), Req("text"), Opt("view"), Opt("ttl"), Opt("comment")>>
    [] t = "create_srv_record" ->
         <<Req("name"), Req("target"), Req("port"), Req("priority"), Req("weight"),
           Opt("view"), Opt("ttl"), Opt("comment")>>
    [] t = "update_dns_record" -> <<Req("ref"), Req("fields")>>
    [] t = "delete_dns_record" -> <<Req("ref")>>
    [] t = "get_networks" ->
         <<Opt("network"), Opt("network_view"), Opt("comment"),
           Dflt("max_results", Num(100)), Opt("return_fields")>>
    [] t = "create_network" ->
         <<Req("network"), Opt("network_view"), Opt("comment"), Opt("members"),
           Opt("options")>>
    [] t = "delete_network" -> <<Req("ref")>>
    [] t = "get_next_available_ip" ->
         <<Req("network_ref"), Dflt("num", Num(1)), Opt("exclude")>>
    [] t = "search_ip_addresses" ->
         <<Opt("ip_address"), Opt("network"), Opt("status"), Opt("network_view"),
           Dflt("max_results", Num(100))>>
    [] t = "get_network_details" -> <<Req("ref"), Opt("return_fields")>>
    [] t = "get_zones" ->
         <<Opt("fqdn"), Opt("view"), Opt("zone_format"), Dflt("max_results", Num(100))>>
    [] t = "create_zone" ->
         <<Req("fqdn"), Opt("view"), Dflt("zone_format", Str(<<"FORWARD">>)),
           Opt("comment"), Opt("grid_primary"), Opt("grid_secondaries"),
           Opt("ns_group")>>
    [] t = "delete_zone" -> <<Req("ref")>>
    [] t = "get_fixed_addresses" ->
         <<Opt("ipv4addr"), Opt("mac"), Opt("network"), Opt("network_view"),
           Opt("comment"), Dflt("max_results", Num(100))>>
    [] t = "create_fixed_address" ->
         <<Req("ipv4addr"), Req("mac"), Opt("name"), Opt("comment"),
           Opt("network_view"), Dflt("match_client", Str(<<"MAC_ADDRESS">>)),
           Opt("options")>>
    [] t = "delete_fixed_address" -> <<Req("ref")>>
    [] t = "get_dhcp_leases" ->
         <<Opt("address"), Opt("network"), Opt("hardware"), Dflt("max_results", Num(100))>>
    [] t = "get_dhcp_ranges" ->
         <<Opt("network"), Opt("network_view"), Dflt("max_results", Num(100))>>
    [] t = "create_dhcp_range" ->
         <<Req("start_addr"), Req("end_addr"), Opt("network"), Opt("network_view"),
           Opt("comment"), Opt("member")>>

\* zod's parse of accepted input: a missing field gets its default
ZodParse(t, raw) ==
  LET sch == Schema(t)
  IN [f \in DOMAIN raw |->
        LET d == CHOOSE i \in 1..Len(sch) : sch[i].f = f
        IN IF raw[f] = Undef THEN sch[d].dflt ELSE raw[f]]

\* object references the model draws: a well-formed one, and ones that hold
\* what a URL parser gives a meaning to
RefSamples ==
  << Str(<<"network", "/", "ZG5z", ":", "10.0.0.0">>),
     Str(<<"network", "/", "ZG5z", "?", "_function", "=", "f", "&", "x", "=", "y">>),
     Str(<<"network", "/", "ZG5z", "#", "top">>),
     Str(<<"..", "/", "..", "/", "admin">>),
     Str(<<"network", "/", "my", " ", "net">>),
     Str(<<>>) >>

\* the values the model draws for field f when it is given, the first being
\* the usual one
Samples(t, f) ==
  CASE f \in {"ref", "network_ref"} -> RefSamples
    [] f = "record_type" /\ t = "search_dns_records" ->
         [i \in 1..Len(RECORD_TYPES) |-> Str(<<RECORD_TYPES[i]>>)]
    [] f = "max_results" -> <<Num(5)>>
    [] f = "ttl" -> <<Num(3600), Num(0)>>
    [] f = "num" -> <<Num(2), Num(0)>>
    [] f \in {"preference", "port", "priority", "weight"} -> <<Num(10)>>
    [] f \in {"disable", "configure_for_dns"} -> <<Bool(TRUE), Bool(FALSE)>>
    [] f = "exclude" -> <<Obj(f), Arr(<<>>)>>
    [] f \in {"ipv4addrs", "ipv6addrs", "members", "options",
              "grid_primary", "grid_secondaries", "member"} -> <<Obj(f)>>
    [] f = "fields" ->
         <<Rec(<< <<"comment", Str(<<"updated">>)>> >>), Rec(<<>>)>>
    [] f = "status" -> <<Str(<<"USED">>)>>
    [] f = "zone_format" -> <<Str(<<"IPv4">>)>>
    [] f = "match_client" -> <<Str(<<"CLIENT_ID">>)>>
    [] f = "return_fields" -> <<Str(<<"extattrs">>), Str(<<>>)>>
    [] f \in {"name", "comment", "network", "fqdn", "ip_address"} ->
         <<Str(<<"$" \o f>>), Str(<<>>)>>
    [] OTHER -> <<Str(<<"$" \o f>>)>>

Range(s) == {s[i] : i \in 1..Len(s)}

\* every choice of a sample for each required field
RECURSIVE RequiredChoices(_, _)
RequiredChoices(t, sch) ==
  IF sch = <<>> THEN {<<>>}
  ELSE LET d == Head(sch)
           rest == RequiredChoices(t, Tail(sch))
           mine == IF d.req
                   THEN IF d.f \in {"ref", "network_ref", "record_type", "fields"}
                        THEN Range(Samples(t, d.f))
                        ELSE {Samples(t, d.f)[1]}
                   ELSE {Undef}
       IN {<<v>> \o r : v \in mine, r \in rest}

\* the raw arguments drawn for tool t: each choice of the required fields with
\* no optional field, with every optional field, and with each single
\* optional field at each of its samples
RawArgs(t) ==
  LET sch == Schema(t)
      n == Len(sch)
      opt == {i \in 1..n : ~sch[i].req}
      profiles ==
        {[i \in 1..n |-> Undef]}
        \cup {[i \in 1..n |-> IF i \in opt THEN Samples(t, sch[i].f)[1] ELSE Undef]}
        \cup UNION {{[i \in 1..n |-> IF i = g THEN v ELSE Undef] :
                       v \in Range(Samples(t, sch[g].f))} : g \in opt}
  IN {[f \in {sch[i].f : i \in 1..n} |->
         LET i == CHOOSE j \in 1..n : sch[j].f = f
         IN IF sch[i].req THEN r[i] ELSE p[i]] :
      r \in RequiredChoices(t, sch), p \in profiles}

(* ------------------------------------------------------------------ *)
(* JSON text and JavaScript string conversion                          *)
(* ------------------------------------------------------------------ *)

Failure == [ok |-> FALSE, v |-> Undef]
Success(v) == [ok |-> TRUE, v |-> v]

\* the items of a JSON array of string literals, text being what follows "["
RECURSIVE ParseItems(_, _)
ParseItems(text, acc) ==
  IF Len(text) >= 4 /\ text[1] = "\"" /\ text[3] = "\""
  THEN IF text[4] = "]" /\ Len(text) = 4
       THEN Success(Arr(Append(acc, Str(<<text[2]>>))))
       ELSE IF text[4] = "," /\ Len(text) > 4
            THEN ParseItems(SubSeq(text, 5, Len(text)), Append(acc, Str(<<text[2]>>)))
            ELSE Failure
  ELSE Failure

\* JSON.parse(text), for the JSON texts the model draws: a string literal, an
\* array of string literals, an object of no or one member; anything else is
\* a SyntaxError
JSONParse(text) ==
  CASE Len(text) = 3 /\ text[1] = "\"" /\ text[3] = "\"" -> Success(Str(<<text[2]>>))
    [] text = <<"[", "]">> -> Success(Arr(<<>>))
    [] text = <<"{", "}">> -> Success(Rec(<<>>))
    [] Len(text) = 5 /\ text[1] = "{" /\ text[3] = ":" /\ text[5] = "}" ->
         Success(Rec(<< <<text[2], text[4]>> >>))
    [] Len(text) > 2 /\ text[1] = "[" -> ParseItems(Tail(text), <<>>)
    [] OTHER -> Failure

\* `${v}`: a string is itself, an array is its items joined by ",", an object
\* is "[object Object]"
RECURSIVE TemplateString(_)
TemplateString(v) ==
  CASE v.k = "str" -> v.s
    [] v.k = "undef" -> <<"undefined">>
    [] v.k = "num" -> NumToString(v.n)
    [] v.k = "arr" ->
         IF v.items = <<>> THEN <<>>
         ELSE IF Len(v.items) = 1 THEN TemplateString(v.items[1])
         ELSE TemplateString(v.items[1]) \o <<",">>
              \o TemplateString(Arr(Tail(v.items)))
    [] OTHER -> <<"[object Object]">>

\* JSON.stringify(v, null, 2) of a parsed response
RECURSIVE StringifyItems(_)
StringifyItems(items) ==
  IF Len(items) = 1 THEN <<"\n  ", "\"">> \o items[1].s \o <<"\"", "\n">>
  ELSE <<"\n  ", "\"">> \o items[1].s \o <<"\"", ",">> \o StringifyItems(Tail(items))

\* a faulty serialisation: of an array only the first item is written
JSONStringifyFirstOnly(v) ==
  CASE v.k = "str" -> <<"\"">> \o v.s \o <<"\"">>
    [] v.k = "arr" ->
         IF v.items = <<>> THEN <<"[", "]">>
         ELSE <<"[">> \o StringifyItems(<<v.items[1]>>) \o <<"]">>
    [] OTHER -> <<"{", "}">>

JSONStringifyPretty(v) ==
  CASE v.k = "str" -> <<"\"">> \o v.s \o <<"\"">>
    [] v.k = "arr" ->
         IF v.items = <<>> THEN <<"[", "]">>
         ELSE <<"[">> \o StringifyItems(v.items) \o <<"]">>
    [] OTHER ->
         IF v.pairs = <<>> THEN <<"{", "}">>
         ELSE <<"{", "\n  ", v.pairs[1][1], ": ", v.pairs[1][2], "\n", "}">>

\* JSON.stringify(body) of a request body: the members in insertion order, a
\* member whose value is undefined left out
JSONStringify(pairs) == SelectSeq(pairs, LAMBDA kv : kv[2] # Undef)

\* an Error object and String(error)
Error(name, message) == [name |-> name, message |-> message]

ErrorToString(e) == <<e.name, ": ">> \o e.message

(* ------------------------------------------------------------------ *)
(* InfobloxClient.request and the methods over it                      *)
(* ------------------------------------------------------------------ *)

NoParams == [present |-> FALSE, pairs |-> <<>>]
Params(pairs) == [present |-> TRUE, pairs |-> pairs]

NoBody == [present |-> FALSE, pairs |-> <<>>]
Body(pairs) == [present |-> TRUE, pairs |-> pairs]

\* for (const [key, value] of Object.entries(params)) url.searchParams.set(key, value)
RECURSIVE SetAll(_, _)
SetAll(query, pairs) ==
  IF pairs = <<>> THEN query
  ELSE SetAll(SearchParamsSet(query, <<Head(pairs)[1]>>, Head(pairs)[2]), Tail(pairs))

\* the headers request() gives every fetch
RequestHeaders(c) ==
  [Authorization |-> c.authHeader, ContentType |-> <<"application/json">>]

\* whether request() gives fetch a body
SendsBody(method, body) == body.present /\ method \in {"POST", "PUT"}

NoRequest ==
  [built |-> FALSE, method |-> "", host |-> <<>>, segs |-> <<>>, query |-> <<>>,
   headers |-> [Authorization |-> <<>>, ContentType |-> <<>>],
   body |-> NoBody]

\* request(), up to its await of fetch: the request handed to fetch, or
\* NoRequest when new URL() throws
request(c, method, path, body, params) ==
  LET url == ParseURL(c.baseUrl \o <<"/">> \o path)
  IN IF ~url.ok THEN NoRequest
     ELSE [built |-> TRUE,
           method |-> method,
           host |-> url.host,
           segs |-> url.segs,
           query |-> IF params.present THEN SetAll(url.query, params.pairs)
                     ELSE url.query,
           headers |-> RequestHeaders(c),
           body |-> IF SendsBody(method, body)
                    THEN Body(JSONStringify(body.pairs))
                    ELSE NoBody]

get(c, objectType, params) == request(c, "GET", objectType, NoBody, Params(params))

getByRef(c, ref, params) == request(c, "GET", ref, NoBody, Params(params))

create(c, objectType, data) == request(c, "POST", objectType, Body(data), NoParams)

\* a faulty update(): the object is POSTed
updateViaPost(c, ref, data) == request(c, "POST", ref, Body(data), NoParams)

update(c, ref, data) == request(c, "PUT", ref, Body(data), NoParams)

delete(c, ref) == request(c, "DELETE", ref, NoBody, NoParams)

callFunction(c, ref, functionName, data) ==
  request(c, "POST", ref, Body(data), Params(<< <<"_function", <<functionName>>>> >>))

\* what the server (or the network) answers: fetch rejects, or a response
\* with a status, a content-type header (Undef: none), a body, and whether
\* the body can be read to its end
Rejected == [rejected |-> TRUE, status |-> 0, contentType |-> Undef, body |-> <<>>, readable |-> TRUE]
Response(status, contentType, body, readable) ==
  [rejected |-> FALSE, status |-> status, contentType |-> contentType,
   body |-> body, readable |-> readable]

JsonType == Str(<<"application/json">>)

Answers ==
  { Rejected,
    Response(200, JsonType, <<"\"", "network/ZG5z:10.0.0.0", "\"">>, TRUE),
    Response(200, JsonType, <<"[", "\"", "b", "\"", ",", "\"", "a", "\"", "]">>, TRUE),
    Response(200, JsonType, <<"{", "}">>, TRUE),
    Response(200, JsonType, <<"<html>">>, TRUE),
    Response(200, JsonType, <<"[", "]">>, FALSE),
    Response(200, Str(<<"text/plain">>), <<"network/ZG5z:10.0.0.0">>, TRUE),
    Response(200, Undef, <<>>, TRUE),
    Response(400, JsonType, <<"{", "\"Error\"", ":", "\"AdmConProtoError\"", "}">>, TRUE),
    Response(500, Str(<<"text/html">>), <<"<html>">>, FALSE) }

\* response.ok
Ok(r) == r.status >= 200 /\ r.status <= 299

\* contentType?.includes("application/json")
IsJson(r) == r.contentType # Undef /\ Contains(r.contentType.s, "application/json")

Returned(v) == [threw |-> FALSE, error |-> Error("", <<>>), value |-> v]
Thrown(e) == [threw |-> TRUE, error |-> e, value |-> Undef]

\* the error request() throws for a response that is not ok
ApiError(r) ==
  Error("Error", <<"Infoblox API error (">> \o NumToString(r.status) \o <<"): ">> \o r.body)

\* a faulty request(): a JSON body is parsed and returned whatever the status
requestSettleLenient(r) ==
  IF r.rejected THEN Thrown(Error("TypeError", <<"fetch failed">>))
  ELSE IF ~r.readable THEN Thrown(Error("TypeError", <<"terminated">>))
       ELSE IF IsJson(r)
            THEN LET j == JSONParse(r.body)
                 IN IF j.ok THEN Returned(j.v)
                    ELSE Thrown(Error("SyntaxError", <<"Unexpected token">>))
            ELSE IF Ok(r) THEN Returned(Str(r.body)) ELSE Thrown(ApiError(r))

\* request(), from the settling of fetch on: what it returns or throws
requestSettle(r) ==
  IF r.rejected THEN Thrown(Error("TypeError", <<"fetch failed">>))
  ELSE IF ~Ok(r)
       THEN IF r.readable THEN Thrown(ApiError(r))
            ELSE Thrown(Error("TypeError", <<"terminated">>))
       ELSE IF ~r.readable THEN Thrown(Error("TypeError", <<"terminated">>))
            ELSE IF IsJson(r)
                 THEN LET j == JSONParse(r.body)
                      IN IF j.ok THEN Returned(j.v)
                         ELSE Thrown(Error("SyntaxError", <<"Unexpected token">>))
                 ELSE Returned(Str(r.body))

\* request() when new URL() throws
InvalidUrlThrown == Thrown(Error("TypeError", <<"Invalid URL">>))

(* ------------------------------------------------------------------ *)
(* The tool handlers                                                   *)
(* ------------------------------------------------------------------ *)

\* the text of a string value ("" for a value that is no string)
S(v) == IF v.k = "str" THEN v.s ELSE <<>>

\* "a,b,c" from its fields
RECURSIVE Csv(_)
Csv(fields) ==
  IF Len(fields) <= 1 THEN fields
  ELSE <<Head(fields), ",">> \o Csv(Tail(fields))

\* o[k] = v on an object held as its members in insertion order
ObjSet(o, k, v) ==
  IF \E i \in 1..Len(o) : o[i][1] = k
  THEN [i \in 1..Len(o) |-> IF o[i][1] = k THEN <<k, v>> ELSE o[i]]
  ELSE Append(o, <<k, v>>)

\* if (cond) o[k] = v
When(cond, k, v) == [cond |-> cond, k |-> k, v |-> v]

RECURSIVE Puts(_, _)
Puts(o, whens) ==
  IF whens = <<>> THEN o
  ELSE Puts(IF Head(whens).cond THEN ObjSet(o, Head(whens).k, Head(whens).v) ELSE o,
            Tail(whens))

\* toolResult(text, isError = false), as the value the handler's promise
\* resolves to
toolResult(text, isError) ==
  [set |-> TRUE, rejected |-> FALSE, text |-> text, isError |-> isError]

\* what a handler has done when it awaits the client: the request the client
\* built, and the texts of its try and catch branches (kind "json": the
\* result is JSON.stringify(value, null, 2); kind "ref": okPrefix then value)
Handled(req, kind, okPrefix, errPrefix) ==
  [req |-> req, kind |-> kind, okPrefix |-> okPrefix, errPrefix |-> errPrefix]

DEFAULT_RETURN_FIELDS(recordType) ==
  CASE recordType = <<"record:a">> -> Str(Csv(<<"name", "ipv4addr", "view", "ttl", "comment", "zone", "disable">>))
    [] recordType = <<"record:aaaa">> -> Str(Csv(<<"name", "ipv6addr", "view", "ttl", "comment", "zone", "disable">>))
    [] recordType = <<"record:cname">> -> Str(Csv(<<"name", "canonical", "view", "ttl", "comment", "zone", "disable">>))
    [] recordType = <<"record:host">> ->
         Str(Csv(<<"name", "ipv4addrs", "ipv6addrs", "view", "ttl", "comment", "zone", "aliases", "configure_for_dns", "disable">>))
    [] recordType = <<"record:ptr">> ->
         Str(Csv(<<"ptrdname", "ipv4addr", "ipv6addr", "view", "ttl", "comment", "zone", "disable">>))
    [] recordType = <<"record:mx">> ->
         Str(Csv(<<"name", "mail_exchanger", "preference", "view", "ttl", "comment", "zone", "disable">>))
    [] recordType = <<"record:txt">> -> Str(Csv(<<"name", "text", "view", "ttl", "comment", "zone", "disable">>))
    [] recordType = <<"record:srv">> ->
         Str(Csv(<<"name", "target", "port", "priority", "weight", "view", "ttl", "comment", "zone", "disable">>))
    [] OTHER -> Undef

\* a faulty search_dns_records: the address is sent as ipv4addr for every
\* record type, and as ipv6addr too for record:aaaa
search_dns_records_any_type(c, a) ==
  LET rt == S(a.record_type)
      v4 == rt = <<"record:a">> \/ rt = <<"record:host">>
      params ==
        Puts(<< <<"_max_results", NumToString(a.max_results.n)>>,
                <<"_return_fields",
                  S(OrElse(a.return_fields, OrElse(DEFAULT_RETURN_FIELDS(rt), Str(<<>>))))>> >>,
             <<When(Truthy(a.name), "name~", S(a.name)),
               When(Truthy(a.zone), "zone", S(a.zone)),
               When(Truthy(a.view), "view", S(a.view)),
               When(Truthy(a.ip_address), "ipv4addr", S(a.ip_address)),
               When(Truthy(a.ip_address) /\ rt = <<"record:aaaa">>,
                    "ipv6addr", S(a.ip_address))>>)
  IN Handled(get(c, rt, params), "json", <<>>, <<"Error ", "searching records", ": ">>)

\* a faulty search_dns_records: the name is sent as an exact-match filter
search_dns_records_exact_name(c, a) ==
  LET rt == S(a.record_type)
      v4 == rt = <<"record:a">> \/ rt = <<"record:host">>
      params ==
        Puts(<< <<"_max_results", NumToString(a.max_results.n)>>,
                <<"_return_fields",
                  S(OrElse(a.return_fields, OrElse(DEFAULT_RETURN_FIELDS(rt), Str(<<>>))))>> >>,
             <<When(Truthy(a.name), "name", S(a.name)),
               When(Truthy(a.zone), "zone", S(a.zone)),
               When(Truthy(a.view), "view", S(a.view)),
               When(Truthy(a.ip_address) /\ v4, "ipv4addr", S(a.ip_address)),
               When(Truthy(a.ip_address) /\ ~v4 /\ rt = <<"record:aaaa">>,
                    "ipv6addr", S(a.ip_address))>>)
  IN Handled(get(c, rt, params), "json", <<>>, <<"Error ", "searching records", ": ">>)

search_dns_records(c, a) ==
  LET rt == S(a.record_type)
      v4 == rt = <<"record:a">> \/ rt = <<"record:host">>
      params ==
        Puts(<< <<"_max_results", NumToString(a.max_results.n)>>,
                <<"_return_fields",
                  S(OrElse(a.return_fields, OrElse(DEFAULT_RETURN_FIELDS(rt), Str(<<>>))))>> >>,
             <<When(Truthy(a.name), "name~", S(a.name)),
               When(Truthy(a.zone), "zone", S(a.zone)),
               When(Truthy(a.view), "view", S(a.view)),
               When(Truthy(a.ip_address) /\ v4, "ipv4addr", S(a.ip_address)),
               When(Truthy(a.ip_address) /\ ~v4 /\ rt = <<"record:aaaa">>,
                    "ipv6addr", S(a.ip_address))>>)
  IN Handled(get(c, rt, params), "json", <<>>, <<"Error ", "searching records", ": ">>)

get_all_records_in_zone(c, a) ==
  LET params ==
        Puts(<< <<"zone", S(a.zone)>>,
                <<"_max_results", NumToString(a.max_results.n)>>,
                <<"_return_fields", Csv(<<"name", "type", "address", "comment", "zone", "view">>)>> >>,
             <<When(Truthy(a.view), "view", S(a.view)),
               When(Truthy(a.record_type), "type", S(a.record_type))>>)
  IN Handled(get(c, <<"allrecords">>, params), "json", <<>>,
             <<"Error ", "fetching zone records", ": ">>)

create_a_record(c, a) ==
  LET data == Puts(<< <<"name", a.name>>, <<"ipv4addr", a.ipv4addr>> >>,
                   <<When(Truthy(a.view), "view", a.view),
                     When(a.ttl # Undef, "ttl", a.ttl),
                     When(a.ttl # Undef, "use_ttl", Bool(TRUE)),
                     When(Truthy(a.comment), "comment", a.comment),
                     When(Truthy(a.disable), "disable", a.disable)>>)
  IN Handled(create(c, <<"record:a">>, data),
             "ref", <<"A record created successfully.\nReference: ">>,
             <<"Error ", "creating A record", ": ">>)

create_aaaa_record(c, a) ==
  LET data == Puts(<< <<"name", a.name>>, <<"ipv6addr", a.ipv6addr>> >>,
                   <<When(Truthy(a.view), "view", a.view),
                     When(a.ttl # Undef, "ttl", a.ttl),
                     When(a.ttl # Undef, "use_ttl", Bool(TRUE)),
                     When(Truthy(a.comment), "comment", a.comment)>>)
  IN Handled(create(c, <<"record:aaaa">>, data),
             "ref", <<"AAAA record created successfully.\nReference: ">>,
             <<"Error ", "creating AAAA record", ": ">>)

create_cname_record(c, a) ==
  LET data == Puts(<< <<"name", a.name>>, <<"canonical", a.canonical>> >>,
                   <<When(Truthy(a.view), "view", a.view),
                     When(a.ttl # Undef, "ttl", a.ttl),
                     When(a.ttl # Undef, "use_ttl", Bool(TRUE)),
                     When(Truthy(a.comment), "comment", a.comment)>>)
  IN Handled(create(c, <<"record:cname">>, data),
             "ref", <<"CNAME record created successfully.\nReference: ">>,
             <<"Error ", "creating CNAME record", ": ">>)

create_host_record(c, a) ==
  LET data == Puts(<< <<"name", a.name>> >>,
                   <<When(Truthy(a.ipv4addrs), "ipv4addrs", a.ipv4addrs),
                     When(Truthy(a.ipv6addrs), "ipv6addrs", a.ipv6addrs),
                     When(Truthy(a.view), "view", a.view),
                     When(a.ttl # Undef, "ttl", a.ttl),
                     When(a.ttl # Undef, "use_ttl", Bool(TRUE)),
                     When(Truthy(a.comment), "comment", a.comment),
                     When(a.configure_for_dns # Undef, "configure_for_dns", a.configure_for_dns)>>)
  IN Handled(create(c, <<"record:host">>, data),
             "ref", <<"Host record created successfully.\nReference: ">>,
             <<"Error ", "creating host record", ": ">>)

create_ptr_record(c, a) ==
  LET data == Puts(<< <<"ptrdname", a.ptrdname>> >>,
                   <<When(Truthy(a.ipv4addr), "ipv4addr", a.ipv4addr),
                     When(Truthy(a.ipv6addr), "ipv6addr", a.ipv6addr),
                     When(Truthy(a.name), "name", a.name),
                     When(Truthy(a.view), "view", a.view),
                     When(a.ttl # Undef, "ttl", a.ttl),
                     When(a.ttl # Undef, "use_ttl", Bool(TRUE)),
                     When(Truthy(a.comment), "comment", a.comment)>>)
  IN Handled(create(c, <<"record:ptr">>, data),
             "ref", <<"PTR record created successfully.\nReference: ">>,
             <<"Error ", "creating PTR record", ": ">>)

create_mx_record(c, a) ==
  LET data == Puts(<< <<"name", a.name>>, <<"mail_exchanger", a.mail_exchanger>>, <<"preference", a.preference>> >>,
                   <<When(Truthy(a.view), "view", a.view),
                     When(a.ttl # Undef, "ttl", a.ttl),
                     When(a.ttl # Undef, "use_ttl", Bool(TRUE)),
                     When(Truthy(a.comment), "comment", a.comment)>>)
  IN Handled(create(c, <<"record:mx">>, data),
             "ref", <<"MX record created successfully.\nReference: ">>,
             <<"Error ", "creating MX record", ": ">>)

create_txt_record(c, a) ==
  LET data == Puts(<< <<"name", a.name>>, <<"text", a.text>> >>,
                   <<When(Truthy(a.view), "view", a.view),
                     When(a.ttl # Undef, "ttl", a.ttl),
                     When(a.ttl # Undef, "use_ttl", Bool(TRUE)),
                     When(Truthy(a.comment), "comment", a.comment)>>)
  IN Handled(create(c, <<"record:txt">>, data),
             "ref", <<"TXT record created successfully.\nReference: ">>,
             <<"Error ", "creating TXT record", ": ">>)

create_srv_record(c, a) ==
  LET data == Puts(<< <<"name", a.name>>, <<"target", a.target>>, <<"port", a.port>>, <<"priority", a.priority>>, <<"weight", a.weight>> >>,
                   <<When(Truthy(a.view), "view", a.view),
                     When(a.ttl # Undef, "ttl", a.ttl),
                     When(a.ttl # Undef, "use_ttl", Bool(TRUE)),
                     When(Truthy(a.comment), "comment", a.comment)>>)
  IN Handled(create(c, <<"record:srv">>, data),
             "ref", <<"SRV record created successfully.\nReference: ">>,
             <<"Error ", "creating SRV record", ": ">>)

update_dns_record(c, a) ==
  Handled(update(c, S(a.ref), a.fields.pairs),
          "ref", <<"Record updated successfully.\nReference: ">>,
          <<"Error ", "updating record", ": ">>)

delete_dns_record(c, a) ==
  Handled(delete(c, S(a.ref)),
          "ref", <<"Record deleted successfully.\nReference: ">>,
          <<"Error ", "deleting record", ": ">>)

get_networks(c, a) ==
  LET params ==
        Puts(<< <<"_max_results", NumToString(a.max_results.n)>>,
                <<"_return_fields",
                  S(OrElse(a.return_fields,
                           Str(Csv(<<"network", "comment", "network_view", "members", "options", "extattrs", "utilization">>))))>> >>,
             <<When(Truthy(a.network), "network~", S(a.network)),
               When(Truthy(a.network_view), "network_view", S(a.network_view)),
               When(Truthy(a.comment), "comment~", S(a.comment))>>)
  IN Handled(get(c, <<"network">>, params), "json", <<>>, <<"Error ", "fetching networks", ": ">>)

create_network(c, a) ==
  LET data == Puts(<< <<"network", a.network>> >>,
                   <<When(Truthy(a.network_view), "network_view", a.network_view),
                     When(Truthy(a.comment), "comment", a.comment),
                     When(Truthy(a.members), "members", a.members),
                     When(Truthy(a.options), "options", a.options)>>)
  IN Handled(create(c, <<"network">>, data),
             "ref", <<"Network created successfully.\nReference: ">>,
             <<"Error ", "creating network", ": ">>)

delete_network(c, a) ==
  Handled(delete(c, S(a.ref)),
          "ref", <<"Network deleted successfully.\nReference: ">>,
          <<"Error ", "deleting network", ": ">>)

get_next_available_ip(c, a) ==
  LET data == Puts(<< <<"num", a.num>> >>,
                   <<When(Truthy(a.exclude), "exclude", a.exclude)>>)
  IN Handled(callFunction(c, S(a.network_ref), "next_available_ip", data),
             "json", <<>>, <<"Error ", "getting next available IP", ": ">>)

search_ip_addresses(c, a) ==
  LET params ==
        Puts(<< <<"_max_results", NumToString(a.max_results.n)>>,
                <<"_return_fields",
                  Csv(<<"ip_address", "status", "names", "types", "objects", "mac_address", "network", "network_view", "usage">>)>> >>,
             <<When(Truthy(a.ip_address), "ip_address", S(a.ip_address)),
               When(Truthy(a.network), "network", S(a.network)),
               When(Truthy(a.status), "status", S(a.status)),
               When(Truthy(a.network_view), "network_view", S(a.network_view))>>)
  IN Handled(get(c, <<"ipv4address">>, params), "json", <<>>,
             <<"Error ", "searching IP addresses", ": ">>)

get_network_details(c, a) ==
  LET params ==
        << <<"_return_fields",
             S(OrElse(a.return_fields,
                      Str(Csv(<<"network", "comment", "network_view", "members", "options", "extattrs", "dhcp_utilization", "dynamic_hosts", "static_hosts", "total_hosts", "utilization">>))))>> >>
  IN Handled(getByRef(c, S(a.ref), params), "json", <<>>,
             <<"Error ", "fetching network details", ": ">>)

get_zones(c, a) ==
  LET params ==
        Puts(<< <<"_max_results", NumToString(a.max_results.n)>>,
                <<"_return_fields",
                  Csv(<<"fqdn", "view", "zone_format", "comment", "disable", "ns_group", "soa_email", "network_view">>)>> >>,
             <<When(Truthy(a.fqdn), "fqdn~", S(a.fqdn)),
               When(Truthy(a.view), "view", S(a.view)),
               When(Truthy(a.zone_format), "zone_format", S(a.zone_format))>>)
  IN Handled(get(c, <<"zone_auth">>, params), "json", <<>>, <<"Error ", "fetching zones", ": ">>)

create_zone(c, a) ==
  LET data == Puts(<< <<"fqdn", a.fqdn>> >>,
                   <<When(Truthy(a.view), "view", a.view),
                     When(Truthy(a.zone_format), "zone_format", a.zone_format),
                     When(Truthy(a.comment), "comment", a.comment),
                     When(Truthy(a.grid_primary), "grid_primary", a.grid_primary),
                     When(Truthy(a.grid_secondaries), "grid_secondaries", a.grid_secondaries),
                     When(Truthy(a.ns_group), "ns_group", a.ns_group)>>)
  IN Handled(create(c, <<"zone_auth">>, data),
             "ref", <<"Zone created successfully.\nReference: ">>,
             <<"Error ", "creating zone", ": ">>)

delete_zone(c, a) ==
  Handled(delete(c, S(a.ref)),
          "ref", <<"Zone deleted successfully.\nReference: ">>,
          <<"Error ", "deleting zone", ": ">>)

get_fixed_addresses(c, a) ==
  LET params ==
        Puts(<< <<"_max_results", NumToString(a.max_results.n)>>,
                <<"_return_fields",
                  Csv(<<"ipv4addr", "mac", "name", "comment", "network", "network_view", "match_client", "disable", "options">>)>> >>,
             <<When(Truthy(a.ipv4addr), "ipv4addr", S(a.ipv4addr)),
               When(Truthy(a.mac), "mac", S(a.mac)),
               When(Truthy(a.network), "network", S(a.network)),
               When(Truthy(a.network_view), "network_view", S(a.network_view)),
               When(Truthy(a.comment), "comment~", S(a.comment))>>)
  IN Handled(get(c, <<"fixedaddress">>, params), "json", <<>>,
             <<"Error ", "fetching fixed addresses", ": ">>)

create_fixed_address(c, a) ==
  LET data == Puts(<< <<"ipv4addr", a.ipv4addr>>, <<"mac", a.mac>> >>,
                   <<When(Truthy(a.name), "name", a.name),
                     When(Truthy(a.comment), "comment", a.comment),
                     When(Truthy(a.network_view), "network_view", a.network_view),
                     When(Truthy(a.match_client), "match_client", a.match_client),
                     When(Truthy(a.options), "options", a.options)>>)
  IN Handled(create(c, <<"fixedaddress">>, data),
             "ref", <<"Fixed address created successfully.\nReference: ">>,
             <<"Error ", "creating fixed address", ": ">>)

delete_fixed_address(c, a) ==
  Handled(delete(c, S(a.ref)),
          "ref", <<"Fixed address deleted successfully.\nReference: ">>,
          <<"Error ", "deleting fixed address", ": ">>)

get_dhcp_leases(c, a) ==
  LET params ==
        Puts(<< <<"_max_results", NumToString(a.max_results.n)>>,
                <<"_return_fields",
                  Csv(<<"address", "hardware", "client_hostname", "starts", "ends", "binding_state", "network", "network_view">>)>> >>,
             <<When(Truthy(a.address), "address", S(a.address)),
               When(Truthy(a.network), "network", S(a.network)),
               When(Truthy(a.hardware), "hardware", S(a.hardware))>>)
  IN Handled(get(c, <<"lease">>, params), "json", <<>>, <<"Error ", "fetching leases", ": ">>)

get_dhcp_ranges(c, a) ==
  LET params ==
        Puts(<< <<"_max_results", NumToString(a.max_results.n)>>,
                <<"_return_fields",
                  Csv(<<"start_addr", "end_addr", "network", "network_view", "comment", "member", "disable">>)>> >>,
             <<When(Truthy(a.network), "network", S(a.network)),
               When(Truthy(a.network_view), "network_view", S(a.network_view))>>)
  IN Handled(get(c, <<"range">>, params), "json", <<>>, <<"Error ", "fetching DHCP ranges", ": ">>)

create_dhcp_range(c, a) ==
  LET data == Puts(<< <<"start_addr", a.start_addr>>, <<"end_addr", a.end_addr>> >>,
                   <<When(Truthy(a.network), "network", a.network),
                     When(Truthy(a.network_view), "network_view", a.network_view),
                     When(Truthy(a.comment), "comment", a.comment),
                     When(Truthy(a.member), "member", a.member)>>)
  IN Handled(create(c, <<"range">>, data),
             "ref", <<"DHCP range created successfully.\nReference: ">>,
             <<"Error ", "creating DHCP range", ": ">>)

\* the handler server.tool() registered under name t
Handler(t, c, a) ==
  CASE t = "search_dns_records" -> search_dns_records(c, a)
    [] t = "get_all_records_in_zone" -> get_all_records_in_zone(c, a)
    [] t = "create_a_record" -> create_a_record(c, a)
    [] t = "create_aaaa_record" -> create_aaaa_record(c, a)
    [] t = "create_cname_record" -> create_cname_record(c, a)
    [] t = "create_host_record" -> create_host_record(c, a)
    [] t = "create_ptr_record" -> create_ptr_record(c, a)
    [] t = "create_mx_record" -> create_mx_record(c, a)
    [] t = "create_txt_record" -> create_txt_record(c, a)
    [] t = "create_srv_record" -> create_srv_record(c, a)
    [] t = "update_dns_record" -> update_dns_record(c, a)
    [] t = "delete_dns_record" -> delete_dns_record(c, a)
    [] t = "get_networks" -> get_networks(c, a)
    [] t = "create_network" -> create_network(c, a)
    [] t = "delete_network" -> delete_network(c, a)
    [] t = "get_next_available_ip" -> get_next_available_ip(c, a)
    [] t = "search_ip_addresses" -> search_ip_addresses(c, a)
    [] t = "get_network_details" -> get_network_details(c, a)
    [] t = "get_zones" -> get_zones(c, a)
    [] t = "create_zone" -> create_zone(c, a)
    [] t = "delete_zone" -> delete_zone(c, a)
    [] t = "get_fixed_addresses" -> get_fixed_addresses(c, a)
    [] t = "create_fixed_address" -> create_fixed_address(c, a)
    [] t = "delete_fixed_address" -> delete_fixed_address(c, a)
    [] t = "get_dhcp_leases" -> get_dhcp_leases(c, a)
    [] t = "get_dhcp_ranges" -> get_dhcp_ranges(c, a)
    [] t = "create_dhcp_range" -> create_dhcp_range(c, a)

(* ------------------------------------------------------------------ *)
(* A tool invocation: the handler up to its await, the settling of     *)
(* fetch, the result                                                   *)
(* ------------------------------------------------------------------ *)

\* a faulty handler: no catch branch, the client's error rejects the promise
SettledUncaught(call, outcome) ==
  IF outcome.threw
  THEN [set |-> TRUE, rejected |-> TRUE, text |-> ErrorToString(outcome.error),
        isError |-> FALSE]
  ELSE toolResult(IF call.kind = "json" THEN JSONStringifyPretty(outcome.value)
                  ELSE call.okPrefix \o TemplateString(outcome.value),
                  FALSE)

\* the handler's try branch returning, or its catch branch
Settled(call, outcome) ==
  IF outcome.threw
  THEN toolResult(call.errPrefix \o ErrorToString(outcome.error), TRUE)
  ELSE toolResult(IF call.kind = "json" THEN JSONStringifyPretty(outcome.value)
                  ELSE call.okPrefix \o TemplateString(outcome.value),
                  FALSE)

\* an invocation whose handler h has run to its await of the client call
Awaiting(t, raw, a, h) ==
  [NoCall EXCEPT !.tool = t, !.raw = raw, !.args = a, !.req = h.req,
                 !.kind = h.kind, !.okPrefix = h.okPrefix,
                 !.errPrefix = h.errPrefix]

\* the client call made: fetch is awaited, or new URL() threw and the
\* handler's catch branch has returned
Called(call) ==
  IF call.req.built
  THEN [call EXCEPT !.pc = "fetching", !.fetches = 1]
  ELSE [call EXCEPT !.pc = "done", !.outcome = InvalidUrlThrown,
                    !.result = Settled(call, InvalidUrlThrown)]

\* the handler of tool t entered with raw arguments: it runs to the await of
\* fetch, or to its end when the client threw before fetching
Entered(t, raw, c) ==
  Called(Awaiting(t, raw, ZodParse(t, raw), Handler(t, c, ZodParse(t, raw))))

\* a faulty client: a request that failed is sent once more
AnsweredRetrying(call, r) ==
  IF requestSettle(r).threw /\ call.fetches < 2
  THEN [call EXCEPT !.fetches = call.fetches + 1]
  ELSE [call EXCEPT !.pc = "done", !.answer = r, !.outcome = requestSettle(r),
                    !.result = Settled(call, requestSettle(r))]

\* the invocation after fetch settled with answer r: request() returns or
\* throws, and the handler returns its result
Answered(call, r) ==
  LET outcome == requestSettle(r)
  IN [call EXCEPT !.pc = "done", !.answer = r, !.outcome = outcome,
                  !.result = Settled(call, outcome)]

\* a faulty client: request() keeps the URL it built as its base URL
InvokeRebasing(s) ==
  /\ transport = "connected"
  /\ calls[s].pc = "idle"
  /\ invocations < MaxInvocations
  /\ \E t \in registry : \E raw \in RawArgs(t) :
       /\ calls' = [calls EXCEPT ![s] = Entered(t, raw, client)]
       /\ client' = [client EXCEPT !.baseUrl = client.baseUrl \o <<"/">> \o <<t>>]
  /\ invocations' = invocations + 1
  /\ UNCHANGED <<env, pc, exitCode, stderr, config, groups, registry, transport>>

\* the protocol server dispatches a tools/call request to a registered
\* handler, with arguments its schema accepts
Invoke(s) ==
  /\ transport = "connected"
  /\ calls[s].pc = "idle"
  /\ invocations < MaxInvocations
  /\ \E t \in registry : \E raw \in RawArgs(t) :
       calls' = [calls EXCEPT ![s] = Entered(t, raw, client)]
  /\ invocations' = invocations + 1
  /\ UNCHANGED <<env, pc, exitCode, stderr, config, client, groups, registry, transport>>

\* fetch settles
Settle(s) ==
  /\ calls[s].pc = "fetching"
  /\ \E r \in Answers : calls' = [calls EXCEPT ![s] = Answered(calls[s], r)]
  /\ UNCHANGED <<env, pc, exitCode, stderr, config, client, groups, registry,
                 transport, invocations>>

\* the result has been written to the transport
Return(s) ==
  /\ calls[s].pc = "done"
  /\ calls' = [calls EXCEPT ![s] = NoCall]
  /\ UNCHANGED <<env, pc, exitCode, stderr, config, client, groups, registry,
                 transport, invocations>>

\* one client that sends a call when the last has returned
Next ==
  \/ getConfig
  \/ NewClient
  \/ RegisterTools
  \/ Connect
  \/ LogRunning
  \/ Invoke(1)
  \/ Settle(1)
  \/ Return(1)

Spec == Init /\ [][Next]_vars

(* ------------------------------------------------------------------ *)
(* Invocations in progress at the same time: the handlers are async, so *)
(* a second tools/call can be dispatched while the first awaits fetch   *)
(* ------------------------------------------------------------------ *)

\* the tools and answers the concurrent runs draw from
ConcurrentTools == {"get_dhcp_leases", "delete_zone"}

ConcurrentAnswers ==
  { Rejected,
    Response(200, JsonType, <<"[", "\"", "b", "\"", ",", "\"", "a", "\"", "]">>, TRUE),
    Response(400, JsonType, <<"{", "\"Error\"", ":", "\"AdmConProtoError\"", "}">>, TRUE) }

InitConcurrent == Init /\ env = BaseEnv

\* a tools/call dispatched to slot s, whatever the other slots are doing
ConcurrentInvoke(s) ==
  /\ transport = "connected"
  /\ calls[s].pc = "idle"
  /\ invocations < MaxInvocations
  /\ \E t \in registry \cap ConcurrentTools : \E raw \in RawArgs(t) :
       calls' = [calls EXCEPT ![s] = Entered(t, raw, client)]
  /\ invocations' = invocations + 1
  /\ UNCHANGED <<env, pc, exitCode, stderr, config, client, groups, registry, transport>>

\* a faulty client: the response is kept in a field of the client, so every
\* request awaiting fetch continues with it
ConcurrentSettleShared(s) ==
  /\ calls[s].pc = "fetching"
  /\ \E r \in ConcurrentAnswers :
       calls' = [o \in Slots |->
                   IF calls[o].pc = "fetching" THEN Answered(calls[o], r)
                   ELSE calls[o]]
  /\ UNCHANGED <<env, pc, exitCode, stderr, config, client, groups, registry,
                 transport, invocations>>

\* the fetch of slot s settles
ConcurrentSettle(s) ==
  /\ calls[s].pc = "fetching"
  /\ \E r \in ConcurrentAnswers : calls' = [calls EXCEPT ![s] = Answered(calls[s], r)]
  /\ UNCHANGED <<env, pc, exitCode, stderr, config, client, groups, registry,
                 transport, invocations>>

NextConcurrent ==
  \/ getConfig
  \/ NewClient
  \/ RegisterTools
  \/ Connect
  \/ LogRunning
  \/ \E s \in Slots : ConcurrentInvoke(s)
  \/ \E s \in Slots : ConcurrentSettle(s)
  \/ \E s \in Slots : Return(s)

SpecConcurrent == InitConcurrent /\ [][NextConcurrent]_vars

(* ------------------------------------------------------------------ *)
(* Properties                                                          *)
(* ------------------------------------------------------------------ *)

\* s holds an invocation whose request was handed to fetch
Requested(s) == calls[s].pc # "idle" /\ calls[s].req.built

\* C1, as amended: an invocation hands fetch one request when the URL of the
\* request can be built and none when new URL() throws; it never hands fetch a
\* second one, neither after a failure nor after a list came back.
C1_AtMostOneRequest ==
  \A s \in Slots :
    /\ calls[s].pc = "idle" => calls[s].fetches = 0
    /\ calls[s].pc = "fetching" => calls[s].req.built /\ calls[s].fetches = 1
    /\ calls[s].pc = "done" =>
         calls[s].fetches = (IF calls[s].req.built THEN 1 ELSE 0)

\* a request that failed with status 500 and whose handler has returned
C1_FailedOnce ==
  \E s \in Slots :
    /\ calls[s].pc = "done"
    /\ calls[s].fetches = 1
    /\ calls[s].outcome.threw
    /\ calls[s].answer.status = 500

\* C1 as stated: every invocation issues exactly one request.
C1_ExactlyOneRequest ==
  \A s \in Slots : calls[s].pc = "done" => calls[s].fetches = 1

\* C2, as amended: a handler always resolves, never rejects; isError is true
\* exactly when the client threw, and the text is then the prefix
\* "Error <what>: " followed by the string form of the error, that is its
\* name, ": " and its message.
C2_ErrorsBecomeResults ==
  \A s \in Slots :
    calls[s].pc = "done" =>
      /\ calls[s].result.set
      /\ ~calls[s].result.rejected
      /\ calls[s].result.isError = calls[s].outcome.threw
      /\ calls[s].outcome.threw =>
           /\ Len(calls[s].errPrefix) = 3
           /\ calls[s].errPrefix[1] = "Error "
           /\ calls[s].errPrefix[3] = ": "
           /\ calls[s].result.text =
                calls[s].errPrefix
                  \o <<calls[s].outcome.error.name, ": ">>
                  \o calls[s].outcome.error.message

\* delete_zone answered 400: the result carries the API error
C2_ApiErrorReported ==
  \E s \in Slots :
    /\ calls[s].pc = "done"
    /\ calls[s].tool = "delete_zone"
    /\ calls[s].outcome.threw
    /\ calls[s].outcome.error.name = "Error"
    /\ calls[s].result.isError

\* C2 as stated: when fetch rejects or the status is outside 2xx, the result
\* has isError true and its text is the prefix followed by the error message.
C2_PrefixThenMessage ==
  \A s \in Slots :
    (/\ calls[s].pc = "done"
     /\ calls[s].req.built
     /\ (calls[s].answer.rejected \/ calls[s].answer.status \notin 200..299)) =>
      /\ ~calls[s].result.rejected
      /\ calls[s].result.isError
      /\ calls[s].result.text = calls[s].errPrefix \o calls[s].outcome.error.message

\* text hay holds text needle
C3_Includes(hay, needle) ==
  \E i \in 0..(Len(hay) - Len(needle)) : SubSeq(hay, i + 1, i + Len(needle)) = needle

C3_Status2xx(r) == r.status \in 200..299

\* C3, as amended: request() throws whenever fetch rejects or the status is
\* outside 2xx, and besides only when new URL() throws, when the body cannot
\* be read, or when a 2xx body announced as JSON does not parse.  For a
\* status outside 2xx whose body was read, the message holds the status code
\* and ends with the body text, and the body is not parsed or returned.
C3_ThrowsOnFailure ==
  \A s \in Slots :
    calls[s].pc = "done" =>
      IF ~calls[s].req.built THEN calls[s].outcome.threw
      ELSE /\ (calls[s].answer.rejected \/ ~C3_Status2xx(calls[s].answer))
                => calls[s].outcome.threw
           /\ calls[s].outcome.threw <=>
                \/ calls[s].answer.rejected
                \/ ~C3_Status2xx(calls[s].answer)
                \/ ~calls[s].answer.readable
                \/ (IsJson(calls[s].answer) /\ ~JSONParse(calls[s].answer.body).ok)
           /\ (/\ ~calls[s].answer.rejected
               /\ ~C3_Status2xx(calls[s].answer)
               /\ calls[s].answer.readable)
                => /\ C3_Includes(calls[s].outcome.error.message,
                                  NumToString(calls[s].answer.status))
                   /\ IsSuffix(calls[s].answer.body, calls[s].outcome.error.message)
                   /\ calls[s].outcome.value = Undef
                   /\ calls[s].result.isError

\* a 400 with a JSON body: thrown, not parsed
C3_JsonErrorBodyThrown ==
  \E s \in Slots :
    /\ calls[s].pc = "done"
    /\ calls[s].req.built
    /\ ~calls[s].answer.rejected
    /\ calls[s].answer.status = 400
    /\ IsJson(calls[s].answer)
    /\ calls[s].outcome.threw

\* C3 as stated, for the requests that reached fetch: request() throws if and
\* only if the status is outside 2xx or fetch rejects.
C3_ThrowsIffFailure ==
  \A s \in Slots :
    (calls[s].pc = "done" /\ calls[s].req.built) =>
      (calls[s].outcome.threw <=>
         (calls[s].answer.rejected \/ ~C3_Status2xx(calls[s].answer)))

\* a required variable of environment e is unset or empty
C4_Missing(e) ==
  \E n \in {"INFOBLOX_HOST", "INFOBLOX_USERNAME", "INFOBLOX_PASSWORD"} :
    e[n] = Undef \/ e[n] = Str(<<>>)

\* C4: when INFOBLOX_HOST, INFOBLOX_USERNAME or INFOBLOX_PASSWORD is unset or
\* empty, the only step main() takes is the exit with code 1: no client is
\* ever constructed, no tool registered, no transport connected, no call
\* served, and the environment (NODE_TLS_REJECT_UNAUTHORIZED in it) stays as
\* it was.
C4_MissingConfigExits ==
  /\ [](C4_Missing(env) =>
          /\ pc \in {"start", "exited"}
          /\ pc = "exited" => exitCode = 1
          /\ config = NoConfig
          /\ client = NoClient
          /\ groups = <<>>
          /\ registry = {}
          /\ transport = "none"
          /\ \A s \in Slots : calls[s] = NoCall)
  /\ [][C4_Missing(env) => (pc' = "exited" /\ exitCode' = 1 /\ env' = env)]_vars

\* the process has exited on an empty password
C4_ExitedOnEmptyPassword ==
  /\ pc = "exited"
  /\ exitCode = 1
  /\ env["INFOBLOX_PASSWORD"] = Str(<<>>)
  /\ env["NODE_TLS_REJECT_UNAUTHORIZED"] = Undef

C5_Groups == <<"dns", "network", "dhcp", "zone", "grid">>

\* C5: the config is read before the client is constructed, the client is
\* constructed before any group registers, the groups register in the order
\* dns, network, dhcp, zone, grid, the transport is connected only when all
\* five have registered, no call is served before that, and the running
\* message is written only after the transport is connected.
C5_StartupOrder ==
  /\ client.constructed => config.set
  /\ groups # <<>> => client.constructed
  /\ Len(groups) <= Len(C5_Groups)
  /\ groups = SubSeq(C5_Groups, 1, Len(groups))
  /\ transport = "connected" => (groups = C5_Groups /\ Tools \subseteq registry)
  /\ \A s \in Slots :
       calls[s].pc # "idle" =>
         (groups = C5_Groups /\ transport = "connected" /\ calls[s].tool \in registry)
  /\ (\E i \in 1..Len(stderr) : stderr[i] = "Infoblox MCP server running")
       => transport = "connected"

\* a call is being served before the running message is written
C5_ServingBeforeLog ==
  /\ pc = "connecting"
  /\ stderr = <<>>
  /\ groups = C5_Groups
  /\ \E s \in Slots : calls[s].pc = "fetching"

\* C6: a step of a tool invocation leaves the client's baseUrl and
\* authHeader, the registry, the config and the environment as they were, and
\* the request of an invocation is the one its arguments give with the client
\* as the constructor left it, whatever ran before.
C6_NoStateAcrossCalls ==
  /\ [](\A s \in Slots :
          calls[s].pc # "idle" =>
            /\ client = InfobloxClient(config)
            /\ calls[s].req =
                 Handler(calls[s].tool, InfobloxClient(config), calls[s].args).req)
  /\ [][calls' # calls =>
          (client' = client /\ registry' = registry /\ env' = env /\ config' = config)]_vars

\* a second invocation is in progress
C6_SecondInvocation ==
  /\ invocations = 2
  /\ \E s \in Slots : calls[s].pc = "fetching" /\ calls[s].tool = "create_network"

C7_Value(ch) == CHOOSE i \in 0..63 : Base64Alphabet[i + 1] = ch

\* the bytes a Base64 text stands for
RECURSIVE C7_Decode(_)
C7_Decode(t) ==
  IF Len(t) < 4 THEN <<>>
  ELSE LET a == C7_Value(t[1])
           b == C7_Value(t[2])
       IN IF t[3] = "=" THEN <<a * 4 + b \div 16>>
          ELSE IF t[4] = "="
               THEN <<a * 4 + b \div 16, (b % 16) * 16 + C7_Value(t[3]) \div 4>>
               ELSE <<a * 4 + b \div 16,
                      (b % 16) * 16 + C7_Value(t[3]) \div 4,
                      (C7_Value(t[3]) % 4) * 64 + C7_Value(t[4])>>
                    \o C7_Decode(SubSeq(t, 5, Len(t)))

\* C7: every request handed to fetch, whatever its method, carries
\* Content-Type application/json and an Authorization header "Basic "
\* followed by a Base64 text that decodes to the bytes of
\* INFOBLOX_USERNAME ":" INFOBLOX_PASSWORD.
C7_BasicAuthOnEveryRequest ==
  \A s \in Slots :
    Requested(s) =>
      /\ calls[s].req.headers.ContentType = <<"application/json">>
      /\ calls[s].req.headers.Authorization # <<>>
      /\ Head(calls[s].req.headers.Authorization) = "Basic "
      /\ C7_Decode(Tail(calls[s].req.headers.Authorization))
           = Utf8Bytes(env["INFOBLOX_USERNAME"].s \o <<":">>
                       \o env["INFOBLOX_PASSWORD"].s)

\* a DELETE, sent with a password that holds a colon
C7_DeleteWithColonPassword ==
  \E s \in Slots :
    /\ calls[s].pc = "fetching"
    /\ calls[s].req.method = "DELETE"
    /\ env["INFOBLOX_PASSWORD"] = Str(<<"p", ":", "w">>)

C8_Verb(t) ==
  CASE t \in {"search_dns_records", "get_all_records_in_zone", "get_networks",
              "search_ip_addresses", "get_network_details", "get_zones",
              "get_fixed_addresses", "get_dhcp_leases", "get_dhcp_ranges"} -> "GET"
    [] t = "update_dns_record" -> "PUT"
    [] t \in {"delete_dns_record", "delete_network", "delete_zone",
              "delete_fixed_address"} -> "DELETE"
    [] OTHER -> "POST"

\* the tools whose endpoint is an argument: an object reference
C8_RefTools ==
  {"update_dns_record", "delete_dns_record", "delete_network", "delete_zone",
   "delete_fixed_address", "get_next_available_ip", "get_network_details"}

\* the tools that take neither a reference nor a record type
C8_FixedTools == Tools \ (C8_RefTools \cup {"search_dns_records"})

C8_Endpoint(t) ==
  CASE t = "get_all_records_in_zone" -> <<"allrecords">>
    [] t = "create_a_record" -> <<"record:a">>
    [] t = "create_aaaa_record" -> <<"record:aaaa">>
    [] t = "create_cname_record" -> <<"record:cname">>
    [] t = "create_host_record" -> <<"record:host">>
    [] t = "create_ptr_record" -> <<"record:ptr">>
    [] t = "create_mx_record" -> <<"record:mx">>
    [] t = "create_txt_record" -> <<"record:txt">>
    [] t = "create_srv_record" -> <<"record:srv">>
    [] t \in {"get_networks", "create_network"} -> <<"network">>
    [] t = "search_ip_addresses" -> <<"ipv4address">>
    [] t \in {"get_zones", "create_zone"} -> <<"zone_auth">>
    [] t \in {"get_fixed_addresses", "create_fixed_address"} -> <<"fixedaddress">>
    [] t = "get_dhcp_leases" -> <<"lease">>
    [] t \in {"get_dhcp_ranges", "create_dhcp_range"} -> <<"range">>

\* the path of a request after /wapi/v<version>
C8_PathAfterBase(req) == SubSeq(req.segs, 3, Len(req.segs))

\* the reference an invocation of a reference tool was given
C8_RefOf(call) ==
  IF call.tool = "get_next_available_ip" THEN call.args.network_ref.s
  ELSE call.args.ref.s

C9_Tools ==
  {"update_dns_record", "delete_dns_record", "delete_network", "delete_zone",
   "delete_fixed_address", "get_next_available_ip"}

\* C9 as stated: the reference is used unmodified as the path of the request
\* after the base URL, with PUT for update, DELETE for delete and POST with
\* the query parameter _function for a function call, and never appears in
\* the request body.
C9_RefIsThePath ==
  \A s \in Slots :
    (Requested(s) /\ calls[s].tool \in C9_Tools) =>
      /\ JoinSegs(calls[s].req.segs)
           = <<"/", "wapi", "/", "v">> \o config.wapiVersion \o <<"/">>
               \o C8_RefOf(calls[s])
      /\ calls[s].req.method =
           (IF calls[s].tool = "update_dns_record" THEN "PUT"
            ELSE IF calls[s].tool = "get_next_available_ip" THEN "POST"
            ELSE "DELETE")
      /\ calls[s].req.query =
           (IF calls[s].tool = "get_next_available_ip"
            THEN << << <<"_function">>, <<"next_available_ip">> >> >>
            ELSE <<>>)
      /\ \A i \in 1..Len(calls[s].req.body.pairs) :
           /\ calls[s].req.body.pairs[i][1] \notin {"ref", "_ref", "network_ref"}
           /\ calls[s].req.body.pairs[i][2] # Str(C8_RefOf(calls[s]))

\* what the claim counts as a value meaning false
C10_MeansFalse(v) == v \in {Str(<<"false">>), Str(<<"FALSE">>), Str(<<"0">>)}

\* C10, as amended: the constructor sets NODE_TLS_REJECT_UNAUTHORIZED to "0"
\* unless INFOBLOX_ALLOW_SELF_SIGNED is exactly "false" (so also when it is
\* unset, "0" or "FALSE"), and leaves the environment as it was when it is
\* "false"; no other step writes the environment.
C10_SelfSignedUnlessFalse ==
  [][env' = IF pc = "configured"
            THEN (IF env["INFOBLOX_ALLOW_SELF_SIGNED"] = Str(<<"false">>)
                  THEN env
                  ELSE [env EXCEPT !["NODE_TLS_REJECT_UNAUTHORIZED"] = Str(<<"0">>)])
            ELSE env]_vars

\* the client is constructed with the flag off and the variable as it was
C10_LeftUntouched ==
  /\ client.constructed
  /\ env["INFOBLOX_ALLOW_SELF_SIGNED"] = Str(<<"false">>)
  /\ env["NODE_TLS_REJECT_UNAUTHORIZED"] = Str(<<"1">>)

\* C10 as stated: the variable is set to "0" when INFOBLOX_ALLOW_SELF_SIGNED
\* is unset, and left untouched when it is set to a value meaning false.
C10_OffOnAnyFalse ==
  [][pc = "configured" =>
       /\ env["INFOBLOX_ALLOW_SELF_SIGNED"] = Undef =>
            env' = [env EXCEPT !["NODE_TLS_REJECT_UNAUTHORIZED"] = Str(<<"0">>)]
       /\ C10_MeansFalse(env["INFOBLOX_ALLOW_SELF_SIGNED"]) => env' = env]_vars

\* the version the claim expects in the URL for environment e
C11_Version(e) ==
  IF e["INFOBLOX_WAPI_VERSION"] = Undef \/ e["INFOBLOX_WAPI_VERSION"] = Str(<<>>)
  THEN <<"2.12">>
  ELSE e["INFOBLOX_WAPI_VERSION"].s

\* C11 as stated: every request URL begins with
\* https://<INFOBLOX_HOST>/wapi/v<version>/, the version being 2.12 when
\* INFOBLOX_WAPI_VERSION is unset or empty (the host is compared as URLs
\* compare hosts, without regard to case).
C11_UrlBeginsWithVersion ==
  \A s \in Slots :
    Requested(s) =>
      /\ calls[s].req.host = LowerCase(env["INFOBLOX_HOST"].s)
      /\ Len(calls[s].req.segs) >= 3
      /\ calls[s].req.segs[1] = <<"wapi">>
      /\ calls[s].req.segs[2] = <<"v">> \o C11_Version(env)

\* C11 as stated, for the requests whose path is an object type or a
\* reference without dot segments: kept to tell where the statement holds
C11_UrlBeginsWithVersionNoDots ==
  \A s \in Slots :
    (Requested(s)
     /\ (calls[s].tool \in C8_RefTools => \A i \in 1..Len(C8_RefOf(calls[s])) :
                                            C8_RefOf(calls[s])[i] # "..")) =>
      /\ calls[s].req.host = LowerCase(env["INFOBLOX_HOST"].s)
      /\ Len(calls[s].req.segs) >= 3
      /\ calls[s].req.segs[1] = <<"wapi">>
      /\ calls[s].req.segs[2] = <<"v">> \o C11_Version(env)

\* the query of request req holds the parameter key with the text value
C12_Sent(req, key, value) ==
  \E i \in 1..Len(req.query) : req.query[i] = << <<key>>, value >>

\* the query of request req holds a parameter named key
C12_HasKey(req, key) ==
  \E i \in 1..Len(req.query) : req.query[i][1] = <<key>>

\* argument f of an invocation, sent as parameter key exactly when it is a
\* non-empty string, and never under the name other
C12_SentAs(call, f, key, other) ==
  /\ Truthy(call.args[f]) => C12_Sent(call.req, key, call.args[f].s)
  /\ ~Truthy(call.args[f]) => ~C12_HasKey(call.req, key)
  /\ ~C12_HasKey(call.req, other)

\* C12: search_dns_records sends a non-empty name as 'name~' and never as
\* 'name', and zone and view as the exact-match 'zone' and 'view';
\* get_networks sends network as 'network~', get_zones sends fqdn as
\* 'fqdn~', and the comment filters (get_networks, get_fixed_addresses) are
\* sent as 'comment~', never as 'comment'.
C12_RegexFilters ==
  \A s \in Slots :
    Requested(s) =>
      /\ calls[s].tool = "search_dns_records" =>
           /\ C12_SentAs(calls[s], "name", "name~", "name")
           /\ C12_SentAs(calls[s], "zone", "zone", "zone~")
           /\ C12_SentAs(calls[s], "view", "view", "view~")
      /\ calls[s].tool = "get_networks" =>
           /\ C12_SentAs(calls[s], "network", "network~", "network")
           /\ C12_SentAs(calls[s], "comment", "comment~", "comment")
      /\ calls[s].tool = "get_zones" =>
           C12_SentAs(calls[s], "fqdn", "fqdn~", "fqdn")
      /\ calls[s].tool = "get_fixed_addresses" =>
           C12_SentAs(calls[s], "comment", "comment~", "comment")
      /\ ~C12_HasKey(calls[s].req, "comment")

\* a search by name is on its way
C12_NameSearchSent ==
  \E s \in Slots :
    /\ calls[s].pc = "fetching"
    /\ calls[s].tool = "search_dns_records"
    /\ Truthy(calls[s].args.name)
    /\ C12_Sent(calls[s].req, "name~", calls[s].args.name.s)

\* C13: in search_dns_records a non-empty ip_address is sent as ipv4addr for
\* record:a and record:host and as ipv6addr for record:aaaa; no request
\* carries both; for the other record types (and for an empty ip_address) the
\* query is the one the same arguments give without ip_address.
C13_AddressFilter ==
  \A s \in Slots :
    (Requested(s) /\ calls[s].tool = "search_dns_records") =>
      /\ ~(C12_HasKey(calls[s].req, "ipv4addr") /\ C12_HasKey(calls[s].req, "ipv6addr"))
      /\ ~C12_HasKey(calls[s].req, "ip_address")
      /\ IF ~Truthy(calls[s].args.ip_address)
         THEN ~C12_HasKey(calls[s].req, "ipv4addr") /\ ~C12_HasKey(calls[s].req, "ipv6addr")
         ELSE IF calls[s].args.record_type.s \in {<<"record:a">>, <<"record:host">>}
         THEN C12_Sent(calls[s].req, "ipv4addr", calls[s].args.ip_address.s)
         ELSE IF calls[s].args.record_type.s = <<"record:aaaa">>
         THEN C12_Sent(calls[s].req, "ipv6addr", calls[s].args.ip_address.s)
         ELSE /\ calls[s].args.record_type.s \in
                   {<<"record:cname">>, <<"record:ptr">>, <<"record:mx">>,
                    <<"record:txt">>, <<"record:srv">>}
              /\ calls[s].req.query =
                   Handler("search_dns_records", InfobloxClient(config),
                           [calls[s].args EXCEPT !.ip_address = Undef]).req.query

\* a PTR search given an address is on its way
C13_PtrSearchWithAddress ==
  \E s \in Slots :
    /\ calls[s].pc = "fetching"
    /\ calls[s].tool = "search_dns_records"
    /\ calls[s].args.record_type = Str(<<"record:ptr">>)
    /\ Truthy(calls[s].args.ip_address)

\* the value of the parameter key in the query of request req
C14_Value(req, key) ==
  req.query[CHOOSE i \in 1..Len(req.query) : req.query[i][1] = <<key>>][2]

\* C14 as stated: when search_dns_records is given return_fields, the
\* _return_fields parameter holds the default return fields of the record
\* type together with the fields given.
C14_AdditionalFields ==
  \A s \in Slots :
    (/\ Requested(s)
     /\ calls[s].tool = "search_dns_records"
     /\ Truthy(calls[s].args.return_fields)) =>
      /\ C12_HasKey(calls[s].req, "_return_fields")
      /\ C3_Includes(C14_Value(calls[s].req, "_return_fields"),
                     DEFAULT_RETURN_FIELDS(calls[s].args.record_type.s).s)
      /\ C3_Includes(C14_Value(calls[s].req, "_return_fields"),
                     calls[s].args.return_fields.s)

C15_ReadTools ==
  {"search_dns_records", "get_all_records_in_zone", "get_networks",
   "get_next_available_ip", "search_ip_addresses", "get_network_details",
   "get_zones", "get_fixed_addresses", "get_dhcp_leases", "get_dhcp_ranges"}

\* a JSON text without the white space of its indentation
C15_Compact(text) ==
  LET kept == SelectSeq(text, LAMBDA t : t \notin {"\n  ", "\n"})
  IN [i \in 1..Len(kept) |-> IF kept[i] = ": " THEN ":" ELSE kept[i]]

\* the value a JSON text stands for
C15_Parse(text) ==
  IF text = <<"\"", "\"">> THEN Success(Str(<<>>)) ELSE JSONParse(text)

\* C15: when the client call succeeds, the text of a read tool (get_*,
\* search_*, get_next_available_ip) is a JSON text that reads back as the
\* very value the client returned, and the text of a create, update or
\* delete tool contains the reference string the client returned.
C15_RawResponseOut ==
  \A s \in Slots :
    (calls[s].pc = "done" /\ ~calls[s].outcome.threw) =>
      /\ ~calls[s].result.isError
      /\ IF calls[s].tool \in C15_ReadTools
         THEN C15_Parse(C15_Compact(calls[s].result.text))
                = Success(calls[s].outcome.value)
         ELSE calls[s].outcome.value.k = "str" =>
                C3_Includes(calls[s].result.text, calls[s].outcome.value.s)

\* a list of two came back and was written out in its order
C15_ListWrittenOut ==
  \E s \in Slots :
    /\ calls[s].pc = "done"
    /\ calls[s].tool = "get_dhcp_leases"
    /\ ~calls[s].outcome.threw
    /\ calls[s].outcome.value = Arr(<<Str(<<"b">>), Str(<<"a">>)>>)
    /\ calls[s].result.set

\* C16: with invocations in progress at the same time, under every
\* interleaving, the request of each is the one its own arguments give, the
\* result of each is the one the answer to its own request gives, and a step
\* of one invocation leaves every other invocation as it was.
C16_Independent ==
  /\ [](\A s \in Slots :
          /\ calls[s].pc # "idle" =>
               calls[s].req =
                 Handler(calls[s].tool, InfobloxClient(config),
                         ZodParse(calls[s].tool, calls[s].raw)).req
          /\ (calls[s].pc = "done" /\ calls[s].req.built) =>
               calls[s].result =
                 Settled(calls[s], requestSettle(calls[s].answer)))
  /\ [][\A s \in Slots :
          calls'[s] # calls[s] =>
            \A o \in Slots \ {s} : calls'[o] = calls[o]]_vars

\* one invocation has failed while another, of another tool, awaits fetch
C16_TwoInProgress ==
  \E s, o \in Slots :
    /\ s # o
    /\ calls[s].pc = "done"
    /\ calls[s].tool = "delete_zone"
    /\ calls[s].outcome.threw
    /\ calls[o].pc = "fetching"
    /\ calls[o].tool = "get_dhcp_leases"

\* the names of the members of the JSON body of request req, in their order
C17_Members(req) == [i \in 1..Len(req.body.pairs) |-> req.body.pairs[i][1]]

\* the request of the invocation in slot s is a POST with a query parameter
\* _function=next_available_ip and a JSON body whose members are num (the
\* caller's, 1 when the caller gave none) and, exactly when the caller gave
\* an exclude list, that list (an empty list included)
C17_FunctionAndBody(s) ==
  /\ calls[s].req.method = "POST"
  /\ C12_Sent(calls[s].req, "_function", <<"next_available_ip">>)
  /\ Cardinality({i \in 1..Len(calls[s].req.query) :
                    calls[s].req.query[i][1] = <<"_function">>}) = 1
  /\ calls[s].req.body.present
  /\ C17_Members(calls[s].req) =
       (IF calls[s].raw.exclude = Undef THEN <<"num">> ELSE <<"num", "exclude">>)
  /\ calls[s].req.body.pairs[1][2] =
       (IF calls[s].raw.num = Undef THEN Num(1) ELSE calls[s].raw.num)
  /\ calls[s].raw.exclude # Undef =>
       calls[s].req.body.pairs[2][2] = calls[s].raw.exclude

\* C17 as stated: get_next_available_ip issues a POST to the path network_ref
\* (after the base URL) with the query parameter _function=next_available_ip
\* and a JSON body that always holds num, 1 when the caller gives none, and
\* holds exclude exactly when the caller supplied an exclude list.
C17_PostToNetworkRef ==
  \A s \in Slots :
    (Requested(s) /\ calls[s].tool = "get_next_available_ip") =>
      /\ JoinSegs(calls[s].req.segs)
           = <<"/", "wapi", "/", "v">> \o config.wapiVersion \o <<"/">>
               \o calls[s].raw.network_ref.s
      /\ C17_FunctionAndBody(s)

\* the verb, the function parameter and the body of C17 without its path:
\* kept to tell where the statement holds
C17_PostWithNumAndExclude ==
  \A s \in Slots :
    (Requested(s) /\ calls[s].tool = "get_next_available_ip") =>
      C17_FunctionAndBody(s)

\* a get_next_available_ip request went out with an empty exclude list and
\* no num from the caller
C17_EmptyExcludeSent ==
  \E s \in Slots :
    /\ Requested(s)
    /\ calls[s].tool = "get_next_available_ip"
    /\ calls[s].raw.num = Undef
    /\ calls[s].raw.exclude = Arr(<<>>)
    /\ C17_Members(calls[s].req) = <<"num", "exclude">>

====
